---- MODULE Spec2Model ----
(***************************************************************************)
(* LinguaFriend: the live voice session client (class LiveClient) and the  *)
(* App component that drives it (toggleLiveMode and the callbacks it hands *)
(* to the client).                                                         *)
(*                                                                         *)
(* The program runs on the browser's event loop.  Every action below is    *)
(* one task of that loop (a click, a timer, a socket event, a settled      *)
(* promise) run to completion.  A handler that reaches an `await` ends its *)
(* action there and a later action resumes it.  The one await whose        *)
(* promise is settled by the program itself (decodeAudioData, an async     *)
(* function without an await of its own) resumes in the microtask          *)
(* checkpoint of the same task: no other task runs in between, which the   *)
(* guard Quiet states.                                                     *)
(***************************************************************************)
EXTENDS Integers, Sequences, FiniteSets, TLC

\* ------------------------------------------------------------------ bounds
MaxClients == 2     \* LiveClient objects toggleLiveMode may construct
MaxMsgs    == 2     \* server messages delivered to handleMessage
MaxTime    == 2     \* range of the clocks (Date.now and AudioContext.currentTime)
MaxReqs    == 1     \* calls of handleSendMessage
MaxChunks  == 2     \* chunks one response stream yields

Clients == 1..MaxClients

\* ----------------------------------------------------------------- values
Null == "null"          \* null of an object-valued field
None == <<>>            \* null of an optional value; Some(x) is <<x>>
Some(x) == <<x>>
WelcomeId == -1         \* the id 'welcome' of the first message
GB  == "\n\nGB "        \* the separator `\n\n🇬🇧 ` of a bilingual bubble
GB0 == "GB "            \* the prefix `🇬🇧 ` of a translation-only bubble
TextErr == <<"I'm having trouble connecting right now.">>
VoiceErr == <<"Connection error with Voice Mode. Please try again.">>
ToolName == "provideBilingualDetails"

Max(a, b) == IF a >= b THEN a ELSE b

\* text is a sequence of tokens; + on strings is \o
RECURSIVE Flat(_)
Flat(ss) == IF ss = <<>> THEN <<>> ELSE Head(ss) \o Flat(Tail(ss))

\* x || '' on an optional string argument: absent and '' both give ''
OrEmpty(x) == IF x = None THEN <<>> ELSE x[1]

VARIABLES
    app,    \* the App component: state, refs
    cl,     \* cl[c]: the fields of LiveClient c, its socket and its pending steps
    env,    \* Date.now() and process.env.API_KEY
    gh      \* history of calls and events, read only by the properties

vars == <<app, cl, env, gh>>

\* ------------------------------------------------------------ initial state
EmptyTurnData ==
    [englishBot |-> <<>>, explanationBot |-> <<>>,
     userOriginal |-> <<>>, userEnglish |-> <<>>]

WelcomeMsg ==
    [id |-> WelcomeId, role |-> "model", text |-> <<"Hello!">>, isError |-> FALSE,
     turn |-> -1, wturn |-> -1]

\* req[r]: the locals of the r-th call of handleSendMessage (its position,
\* botMsgId, fullResponseText), the chunks its stream has yielded, and which
\* entries of the list its updaters appended (botAt) and rewrote (wrote)
InitApp ==
    [isLive |-> FALSE, liveClientRef |-> None, messages |-> <<WelcomeMsg>>,
     pend |-> <<>>, currentLiveUserMsgId |-> None, currentLiveModelMsgId |-> None,
     currentTurnData |-> EmptyTurnData, isLoading |-> FALSE, req |-> <<>>]

InitClient ==
    [pc |-> "new", isConnected |-> FALSE, session |-> Null, mediaStream |-> Null,
     inputAudioContext |-> Null, outputAudioContext |-> Null,
     scriptProcessor |-> Null, nextStartTime |-> 0, sources |-> {},
     currentInputTranscription |-> <<>>, currentOutputTranscription |-> <<>>,
     timer |-> FALSE, susp |-> None, sock |-> "none", ctxTime |-> 0]

NoLast ==
    [op |-> "init", c |-> 0, wasConnected |-> FALSE, wasLive |-> FALSE,
     ref |-> None, refAlive |-> FALSE, errBefore |-> 0]

InitGh ==
    [nClients |-> 0, nMsgs |-> 0, nSrc |-> 0, turnNo |-> 0,
     stopped |-> [c \in Clients |-> FALSE],
     discRan |-> [c \in Clients |-> FALSE],
     discInDelay |-> [c \in Clients |-> FALSE],
     errCalls |-> [c \in Clients |-> 0],
     connCalls |-> [c \in Clients |-> 0],
     sent |-> [c \in Clients |-> {}],
     started |-> [c \in Clients |-> FALSE],
     fragsIn |-> [c \in Clients |-> <<>>],
     fragsOut |-> [c \in Clients |-> <<>>],
     sched |-> [c \in Clients |-> <<>>],
     playing |-> [c \in Clients |-> {}],
     trace |-> <<>>, last |-> NoLast]

World == [app |-> app, cl |-> cl, env |-> env, gh |-> gh, mode |-> "batch"]

Commit(w) == /\ app' = w.app
             /\ cl' = w.cl
             /\ env' = w.env
             /\ gh' = w.gh

\* no handler is suspended at an await that the same task resumes
Quiet == \A c \in Clients : cl[c].susp = None

\* ------------------------------------------------------- App: setMessages
\* The function handed to setMessages by updateLiveUserMessage. It reads and
\* writes the ref when React runs it, with the text captured at the call.
ApplyUserUpd(a, u, now) ==
    IF a.currentLiveUserMsgId # None
    THEN [a EXCEPT !.messages =
            [i \in DOMAIN a.messages |->
                IF a.messages[i].id = a.currentLiveUserMsgId[1]
                THEN [a.messages[i] EXCEPT !.text = u.text, !.wturn = u.turn]
                ELSE a.messages[i]]]
    ELSE [a EXCEPT !.currentLiveUserMsgId = Some(now),
                   !.messages = Append(a.messages,
                       [id |-> now, role |-> "user", text |-> u.text,
                        isError |-> FALSE, turn |-> u.turn, wturn |-> u.turn])]

\* The function handed to setMessages by updateLiveModelMessage.
ApplyModelUpd(a, u, now) ==
    IF a.currentLiveModelMsgId # None
    THEN [a EXCEPT !.messages =
            [i \in DOMAIN a.messages |->
                IF a.messages[i].id = a.currentLiveModelMsgId[1]
                THEN [a.messages[i] EXCEPT !.text = u.text, !.wturn = u.turn]
                ELSE a.messages[i]]]
    ELSE [a EXCEPT !.currentLiveModelMsgId = Some(now + 1),
                   !.messages = Append(a.messages,
                       [id |-> now + 1, role |-> "model", text |-> u.text,
                        isError |-> FALSE, turn |-> u.turn, wturn |-> u.turn])]

\* prev => [...prev, msg]
ApplyAppendUpd(a, u) == [a EXCEPT !.messages = Append(a.messages, u.msg)]

\* prev => [...prev, initialBotMsg]
ApplyBotUpd(a, u) ==
    [a EXCEPT !.messages = Append(a.messages, u.msg),
              !.req[u.req].botAt = Len(a.messages) + 1]

\* prev => prev.map(msg => msg.id === botMsgId ? {...msg, text: fullResponseText} : msg)
\* fullResponseText is the variable of the call, read when React runs the function
ApplyChunkUpd(a, u) ==
    LET full == a.req[u.req].fullResponseText
        hit  == {i \in DOMAIN a.messages : a.messages[i].id = u.id}
    IN  [a EXCEPT !.messages =
                      [i \in DOMAIN a.messages |->
                          IF i \in hit THEN [a.messages[i] EXCEPT !.text = full]
                          ELSE a.messages[i]],
                  !.req[u.req].wrote = @ \cup {i \in hit : a.messages[i].text # full}]

ApplyUpd(a, u, now) ==
    CASE u.kind = "user"  -> ApplyUserUpd(a, u, now)
      [] u.kind = "model" -> ApplyModelUpd(a, u, now)
      [] u.kind = "bot"   -> ApplyBotUpd(a, u)
      [] u.kind = "chunk" -> ApplyChunkUpd(a, u)
      [] OTHER            -> ApplyAppendUpd(a, u)

RECURSIVE ApplyAll(_, _, _)
ApplyAll(a, us, now) ==
    IF us = <<>> THEN a ELSE ApplyAll(ApplyUpd(a, Head(us), now), Tail(us), now)

\* setMessages(updater). React runs the updater at once when the component has
\* no update pending and it chooses to (w.mode "sync": every call of the task;
\* "first": the first call only), and otherwise queues it for the next render.
SetMessages(w, u) ==
    IF w.app.pend = <<>> /\ w.mode # "batch"
    THEN [w EXCEPT !.app = ApplyUpd(w.app, u, w.env.dateNow),
                   !.mode = IF w.mode = "first" THEN "batch" ELSE w.mode]
    ELSE [w EXCEPT !.app.pend = Append(w.app.pend, u)]

Modes == {"sync", "first", "batch"}

\* ----------------------------------------------------- App: turn data, refs
ResetTurnData(w) == [w EXCEPT !.app.currentTurnData = EmptyTurnData]

UpdateLiveUserMessage(w, hasTranslation) ==
    LET td == w.app.currentTurnData
        displayText == IF hasTranslation /\ td.userEnglish # <<>>
                       THEN td.userOriginal \o <<GB>> \o td.userEnglish
                       ELSE td.userOriginal
    IN  SetMessages(w, [kind |-> "user", text |-> displayText, turn |-> w.gh.turnNo])

UpdateLiveModelMessage(w) ==
    LET td == w.app.currentTurnData
        displayText == IF td.englishBot # <<>> /\ td.explanationBot # <<>>
                       THEN td.englishBot \o <<GB>> \o td.explanationBot
                       ELSE IF td.explanationBot # <<>>
                            THEN <<GB0>> \o td.explanationBot
                            ELSE td.englishBot
    IN  SetMessages(w, [kind |-> "model", text |-> displayText, turn |-> w.gh.turnNo])

HandleLiveInput(w, text) ==
    UpdateLiveUserMessage([w EXCEPT !.app.currentTurnData.userOriginal = text], FALSE)

\* ------------------------------------------------ LiveClient.disconnect()
\* session.close() starts the socket's closing handshake; onclose comes later.
DisconnectClient(k) ==
    [k EXCEPT !.isConnected = FALSE,
              !.sock = IF k.session # Null /\ k.sock = "open" THEN "closing" ELSE k.sock,
              !.session = Null,
              !.inputAudioContext = Null,
              !.outputAudioContext = Null,
              !.mediaStream = Null,
              !.scriptProcessor = Null]

\* a slip: the callback leaves the live flag alone
OnDisconnectedKeepsLive(w) == w

\* onDisconnected: () => { setIsLive(false) }
OnDisconnected(w) == [w EXCEPT !.app.isLive = FALSE]

Disconnect(w, c) ==
    LET w1 == [w EXCEPT !.cl[c] = DisconnectClient(w.cl[c]),
                        !.gh.discRan[c] = TRUE,
                        !.gh.discInDelay[c] = w.gh.discInDelay[c] \/ w.cl[c].timer]
    IN  OnDisconnected(w1)

\* ------------------------------------------------------- the App callbacks
\* onError of the client c: it disconnects whichever client the ref holds.
OnError(w, c) ==
    LET w1 == IF w.app.liveClientRef # None
              THEN [Disconnect(w, w.app.liveClientRef[1])
                        EXCEPT !.app.liveClientRef = None]
              ELSE w
        w2 == [w1 EXCEPT !.app.isLive = FALSE, !.gh.errCalls[c] = @ + 1]
        errorMsg == [id |-> w.env.dateNow, role |-> "model", text |-> VoiceErr,
                     isError |-> TRUE, turn |-> -1, wturn |-> -1]
    IN  SetMessages(w2, [kind |-> "append", msg |-> errorMsg])

OnTurnComplete(w) ==
    ResetTurnData([w EXCEPT !.app.currentLiveUserMsgId = None,
                            !.app.currentLiveModelMsgId = None,
                            !.gh.turnNo = @ + 1])

OnInputTranscription(w, text) == HandleLiveInput(w, text)

OnOutputTranscription(w, text) ==
    UpdateLiveModelMessage([w EXCEPT !.app.currentTurnData.englishBot = text])

OnExplanation(w, data) ==
    LET w1 == [w EXCEPT !.app.currentTurnData.explanationBot = data.botTranslation]
        w2 == IF data.userOriginal # <<>>
              THEN UpdateLiveUserMessage(
                      [w1 EXCEPT !.app.currentTurnData.userOriginal = data.userOriginal,
                                 !.app.currentTurnData.userEnglish = data.userEnglishTranslation],
                      TRUE)
              ELSE w1
    IN  UpdateLiveModelMessage(w2)

\* ---------------------------------------------------------- the history
IsVoiceErr(x) == x.isError /\ x.text = VoiceErr

\* error bubbles a has got or will get at its next render
ErrCount(a) ==
    Cardinality({i \in DOMAIN a.messages : IsVoiceErr(a.messages[i])})
  + Cardinality({i \in DOMAIN a.pend :
        a.pend[i].kind = "append" /\ IsVoiceErr(a.pend[i].msg)})

Connecting(k) == k.pc \in {"getMedia", "resumeIn", "resumeOut", "liveConnect"}

\* what the properties remember of the task that ran last: the handler, its
\* client, and the state it started from
Last(op, c) ==
    [op |-> op, c |-> c,
     wasConnected |-> c \in Clients /\ cl[c].isConnected,
     wasLive |-> app.isLive,
     ref |-> app.liveClientRef,
     refAlive |-> /\ app.liveClientRef # None
                  /\ \/ Connecting(cl[app.liveClientRef[1]])
                     \/ cl[app.liveClientRef[1]].isConnected,
     errBefore |-> ErrCount(app)]

\* ------------------------------------------- LiveClient.handleMessage
Emit(w, e) == [w EXCEPT !.gh.trace = Append(@, e)]

\* a slip: the start time is not raised to the current time
BumpStartStale(k) == k

\* this.nextStartTime = Math.max(this.nextStartTime, ctx.currentTime)
BumpStart(k) == [k EXCEPT !.nextStartTime = Max(k.nextStartTime, k.ctxTime)]

\* source.start(this.nextStartTime); this.nextStartTime += audioBuffer.duration;
\* this.sources.add(source)
ScheduleChunk(k, id, dur) ==
    [k EXCEPT !.sources = @ \cup {[id |-> id, start |-> k.nextStartTime, dur |-> dur]},
              !.nextStartTime = @ + dur]

\* the part of handleMessage after the await, for a chunk that decoded (kind
\* "ok") or whose decoding rejected (kind "odd": a byte count Int16Array refuses)
AfterDecode(w, c, s) ==
    IF s.kind = "ok" /\ w.cl[c].outputAudioContext # Null
    THEN LET k   == w.cl[c]
             id  == w.gh.nSrc + 1
             k2  == ScheduleChunk(k, id, s.dur)
             src == CHOOSE x \in k2.sources : x.id = id
         IN  [w EXCEPT !.cl[c] = k2,
                       !.gh.nSrc = id,
                       !.gh.playing[c] = @ \cup {src},
                       !.gh.sched[c] = Append(@,
                           [seq |-> s.seq, arr |-> s.arr, start |-> src.start,
                            dur |-> s.dur, nstAfter |-> k2.nextStartTime])]
    ELSE w

\* a slip: the callback gets the fragment, not the accumulated text
InputTranscriptionFragmentOnly(w, c, m) ==
    IF m.inTr # None
    THEN LET text == w.cl[c].currentInputTranscription \o m.inTr[1]
             w1   == [w EXCEPT !.cl[c].currentInputTranscription = text]
         IN  OnInputTranscription(
                Emit(w1, [ev |-> "onInputTranscription", text |-> m.inTr[1]]), m.inTr[1])
    ELSE w

InputTranscription(w, c, m) ==
    IF m.inTr # None
    THEN LET text == w.cl[c].currentInputTranscription \o m.inTr[1]
             w1   == [w EXCEPT !.cl[c].currentInputTranscription = text]
         IN  OnInputTranscription(Emit(w1, [ev |-> "onInputTranscription", text |-> text]), text)
    ELSE w

OutputTranscription(w, c, m) ==
    IF m.outTr # None
    THEN LET text == w.cl[c].currentOutputTranscription \o m.outTr[1]
             w1   == [w EXCEPT !.cl[c].currentOutputTranscription = text]
         IN  OnOutputTranscription(Emit(w1, [ev |-> "onOutputTranscription", text |-> text]), text)
    ELSE w

ExplanationOf(args) ==
    [botTranslation |-> OrEmpty(args.botTranslation),
     userOriginal |-> OrEmpty(args.userOriginal),
     userEnglishTranslation |-> OrEmpty(args.userEnglishTranslation)]

\* a slip: every function call is answered, whatever its name
ToolCallAnyName(w, c, fc) ==
    LET data == ExplanationOf(fc.args)
        w1   == OnExplanation(Emit(w, [ev |-> "onExplanation", data |-> data]), data)
    IN  IF w1.cl[c].session # Null
        THEN Emit(w1, [ev |-> "sendToolResponse", id |-> fc.id, name |-> fc.name])
        ELSE w1

\* one function call of a toolCall message
ToolCall(w, c, fc) ==
    IF fc.name = ToolName
    THEN LET data == ExplanationOf(fc.args)
             w1   == OnExplanation(Emit(w, [ev |-> "onExplanation", data |-> data]), data)
         IN  IF w1.cl[c].session # Null
             THEN Emit(w1, [ev |-> "sendToolResponse", id |-> fc.id, name |-> fc.name])
             ELSE w1
    ELSE w

RECURSIVE ToolCalls(_, _, _)
ToolCalls(w, c, fcs) ==
    IF fcs = <<>> THEN w ELSE ToolCalls(ToolCall(w, c, Head(fcs)), c, Tail(fcs))

TurnComplete(w, c, m) ==
    IF m.turnComplete
    THEN [OnTurnComplete(Emit(w, [ev |-> "onTurnComplete"]))
            EXCEPT !.cl[c].currentInputTranscription = <<>>,
                   !.cl[c].currentOutputTranscription = <<>>]
    ELSE w

\* a slip: the interruption forgets to rewind the timeline
InterruptClientNoRewind(k) ==
    [k EXCEPT !.sources = {}, !.currentOutputTranscription = <<>>]

\* sources.forEach(stop); sources.clear(); nextStartTime = 0; output text = ''
InterruptClient(k) ==
    [k EXCEPT !.sources = {}, !.nextStartTime = 0, !.currentOutputTranscription = <<>>]

Interrupted(w, c, m) ==
    IF m.interrupted
    THEN [w EXCEPT !.cl[c] = InterruptClient(w.cl[c]),
                   !.gh.playing[c] = @ \ w.cl[c].sources,
                   !.gh.sched[c] = <<>>]
    ELSE w

\* handleMessage from "Handle Transcriptions" to its end
HandleRest(w, c, m) ==
    Interrupted(
        TurnComplete(
            ToolCalls(
                OutputTranscription(InputTranscription(w, c, m), c, m),
                c, m.calls),
            c, m),
        c, m)

\* what the properties remember of a finished handleMessage: the message, whether
\* the guard let it in, the fragments received up to and including it, whether
\* disconnect() had run on the client before, and whether a source was scheduled
Finished(w, c, m, handled) ==
    LET inAll  == gh.fragsIn[c] \o (IF m.inTr # None THEN <<m.inTr[1]>> ELSE <<>>)
        outAll == gh.fragsOut[c] \o (IF m.outTr # None THEN <<m.outTr[1]>> ELSE <<>>)
    IN  [w EXCEPT
            !.gh.last = [op |-> "handleMessage", c |-> c, m |-> m, handled |-> handled,
                         inBefore |-> cl[c].currentInputTranscription,
                         srcBefore |-> cl[c].sources,
                         inAll |-> inAll, outAll |-> outAll,
                         afterDisconnect |-> gh.discRan[c],
                         scheduled |-> w.gh.nSrc # gh.nSrc],
            !.gh.fragsIn[c] = IF m.turnComplete THEN <<>> ELSE inAll,
            !.gh.fragsOut[c] = IF m.turnComplete \/ m.interrupted THEN <<>> ELSE outAll]

\* onmessage: handleMessage up to its await (or to its end when it has none).
\* atob throwing on the data (kind "badBase64") is caught before the await.
HandleMessage(c, m, mode) ==
    /\ Quiet
    /\ cl[c].sock \in {"open", "closing"}
    /\ gh.nMsgs < MaxMsgs
    /\ LET w0 == [World EXCEPT !.mode = mode, !.gh.nMsgs = @ + 1, !.gh.trace = <<>>]
           k  == cl[c]
       IN  IF ~k.isConnected
           THEN Commit(Finished(w0, c, m, FALSE))
           ELSE IF m.audio # None /\ k.outputAudioContext # Null
           THEN LET w1 == [w0 EXCEPT !.cl[c] = BumpStart(k)]
                IN  IF m.audio[1].kind = "badBase64"
                    THEN Commit(Finished(HandleRest(w1, c, m), c, m, TRUE))
                    ELSE Commit([w1 EXCEPT
                            !.cl[c].susp = Some([m |-> m, mode |-> mode,
                                kind |-> m.audio[1].kind, dur |-> m.audio[1].dur,
                                arr |-> k.ctxTime, seq |-> w0.gh.nMsgs]),
                            !.gh.last = Last("await", c)])
           ELSE Commit(Finished(HandleRest(w0, c, m), c, m, TRUE))

\* handleMessage resumed after `await this.decodeAudioData(...)`
HandleMessageResume(c) ==
    /\ cl[c].susp # None
    /\ LET s  == cl[c].susp[1]
           w0 == [World EXCEPT !.mode = s.mode, !.cl[c].susp = None]
       IN  Commit(Finished(HandleRest(AfterDecode(w0, c, s), c, s.m), c, s.m, TRUE))

\* --------------------------------------------------- LiveClient.connect()
\* a slip: the catch reports the error without cleaning up
ConnectCatchNoCleanup(w, c) ==
    [OnError(w, c) EXCEPT !.cl[c].pc = "failed", !.gh.last = Last("connectFail", c)]

\* catch (error) { this.disconnect(); this.callbacks.onError(error); }
ConnectCatch(w, c) ==
    [OnError(Disconnect(w, c), c) EXCEPT
        !.cl[c].pc = "failed",
        !.gh.last = Last("connectFail", c)]

\* connect() from its first line to `await getUserMedia`
ConnectBegin(w, c) ==
    IF ~w.env.apiKey
    THEN [OnError(w, c) EXCEPT
            !.cl[c].pc = "failed",
            !.gh.last = Last("connectFail", c)]
    ELSE [w EXCEPT !.cl[c].pc = "getMedia", !.gh.last = Last("start", c)]

\* this.inputNode = ...createGain(); ...; await ai.live.connect(...)
\* (createGain on a context that disconnect() has nulled throws)
ConnectLive(w, c) ==
    IF w.cl[c].inputAudioContext = Null \/ w.cl[c].outputAudioContext = Null
    THEN ConnectCatch(w, c)
    ELSE [w EXCEPT !.cl[c].pc = "liveConnect", !.cl[c].sock = "connecting",
                   !.gh.last = Last("connectStep", c)]

\* getUserMedia settles: rejected, or resolved and then the two AudioContexts
\* are made (the constructor throwing, or both suspended, or both running)
GetUserMediaSettled(c, outcome, mode) ==
    /\ Quiet
    /\ cl[c].pc = "getMedia"
    /\ LET w0 == [World EXCEPT !.mode = mode]
           w1 == [w0 EXCEPT !.cl[c].mediaStream = "stream"]
           w2 == [w1 EXCEPT !.cl[c].inputAudioContext = outcome,
                            !.cl[c].outputAudioContext = outcome,
                            !.cl[c].ctxTime = 0]
       IN  CASE outcome = "reject"    -> Commit(ConnectCatch(w0, c))
             [] outcome = "throw"     -> Commit(ConnectCatch(w1, c))
             [] outcome = "suspended" ->
                    Commit([w2 EXCEPT !.cl[c].pc = "resumeIn",
                                      !.gh.last = Last("connectStep", c)])
             [] OTHER                 -> Commit(ConnectLive(w2, c))

Running(x) == IF x = Null THEN Null ELSE "running"

\* `await ctx.resume()` settles, for the input context and then the output one
ResumeSettled(c, ok, mode) ==
    /\ Quiet
    /\ cl[c].pc \in {"resumeIn", "resumeOut"}
    /\ LET w0 == [World EXCEPT !.mode = mode]
           k  == cl[c]
       IN  IF ~ok
           THEN Commit(ConnectCatch(w0, c))
           ELSE IF k.pc = "resumeIn"
           THEN LET w1 == [w0 EXCEPT !.cl[c].inputAudioContext = Running(@)]
                IN  IF k.outputAudioContext = Null
                    THEN Commit(ConnectCatch(w1, c))
                    ELSE IF k.outputAudioContext = "suspended"
                    THEN Commit([w1 EXCEPT !.cl[c].pc = "resumeOut",
                                           !.gh.last = Last("connectStep", c)])
                    ELSE Commit(ConnectLive(w1, c))
           ELSE Commit(ConnectLive(
                    [w0 EXCEPT !.cl[c].outputAudioContext = Running(@)], c))

\* `await ai.live.connect(...)` settles; on success the rest of connect()
LiveConnectSettled(c, ok, mode) ==
    /\ Quiet
    /\ cl[c].pc = "liveConnect"
    /\ LET w0 == [World EXCEPT !.mode = mode]
       IN  IF ok
           THEN Commit([w0 EXCEPT !.cl[c].session = "session",
                                  !.cl[c].sock = "open",
                                  !.cl[c].isConnected = TRUE,
                                  !.cl[c].timer = TRUE,
                                  !.cl[c].pc = "done",
                                  !.gh.connCalls[c] = @ + 1,
                                  !.gh.last = Last("connected", c)])
           ELSE Commit(ConnectCatch([w0 EXCEPT !.cl[c].sock = "closed"], c))

\* ------------------------------------------------- startAudioStreaming
StartAudioStreaming(k) ==
    IF k.inputAudioContext = Null \/ k.mediaStream = Null \/ k.session = Null
    THEN k
    ELSE [k EXCEPT !.scriptProcessor = "processor"]

\* setTimeout(() => { if (this.isConnected) this.startAudioStreaming() }, 500)
TimerCallback(k) ==
    IF k.isConnected THEN StartAudioStreaming([k EXCEPT !.timer = FALSE])
    ELSE [k EXCEPT !.timer = FALSE]

TimerFired(c) ==
    /\ Quiet
    /\ cl[c].timer
    /\ Commit([World EXCEPT !.cl[c] = TimerCallback(cl[c]),
                            !.gh.started[c] = TimerCallback(cl[c]).scriptProcessor # Null,
                            !.gh.last = Last("timer", c)])

\* scriptProcessor.onaudioprocess: may it send this buffer?
MaySend(k) == k.isConnected /\ k.session # Null

OnAudioProcess(w, c) ==
    IF MaySend(w.cl[c])
    THEN [w EXCEPT !.gh.sent[c] = @ \cup
            {[connected |-> w.cl[c].isConnected, session |-> w.cl[c].session,
              afterDisconnect |-> w.gh.discRan[c]]}]
    ELSE w

AudioProcess(c) ==
    /\ Quiet
    /\ cl[c].scriptProcessor # Null
    /\ Commit(OnAudioProcess(World, c))

\* ------------------------------------------------- the session's callbacks
\* onclose: () => { this.disconnect() }
SessionOnClose(c) ==
    /\ Quiet
    /\ cl[c].sock \in {"open", "closing"}
    /\ Commit([Disconnect([World EXCEPT !.cl[c].sock = "closed"], c) EXCEPT
            !.gh.last = Last("onclose", c)])

\* onerror: (e) => { if (this.isConnected) { disconnect(); onError(...) } }
OnSessionError(w, c) ==
    IF w.cl[c].isConnected THEN OnError(Disconnect(w, c), c) ELSE w

SessionOnError(c, mode) ==
    /\ Quiet
    /\ cl[c].sock = "open"
    /\ Commit([OnSessionError([World EXCEPT !.mode = mode], c) EXCEPT
            !.gh.last = Last("onerror", c)])

\* ------------------------------------------------------- toggleLiveMode
StopLive(w) ==
    LET r  == w.app.liveClientRef
        w1 == IF r # None
              THEN [Disconnect(w, r[1]) EXCEPT !.app.liveClientRef = None,
                                               !.gh.stopped[r[1]] = TRUE]
              ELSE w
    IN  [ResetTurnData([w1 EXCEPT !.app.isLive = FALSE]) EXCEPT
            !.gh.last = Last("stop", IF r # None THEN r[1] ELSE 0)]

StartLive(w, c) ==
    ConnectBegin(
        [ResetTurnData([w EXCEPT !.app.isLive = TRUE]) EXCEPT
            !.app.liveClientRef = Some(c), !.gh.nClients = c],
        c)

ToggleLiveMode(mode, maxc) ==
    /\ Quiet
    /\ LET w0 == [World EXCEPT !.mode = mode]
       IN  IF app.isLive
           THEN Commit(StopLive(w0))
           ELSE /\ gh.nClients < maxc
                /\ Commit(StartLive(w0, gh.nClients + 1))

\* ---------------------------------------------------- handleSendMessage
\* handleSendMessage(text) up to the first stream.next() of its for await; the
\* clock may pass a millisecond between its two Date.now() calls (late)
HandleSendMessage(w, text, late) ==
    LET r   == Len(w.app.req) + 1
        userMsg == [id |-> w.env.dateNow, role |-> "user", text |-> text,
                    isError |-> FALSE, turn |-> -1, wturn |-> -1]
        w1  == SetMessages(w, [kind |-> "append", msg |-> userMsg])
        w2  == [w1 EXCEPT !.app.isLoading = TRUE,
                          !.env.dateNow = IF late THEN @ + 1 ELSE @]
        botMsgId == w2.env.dateNow + 1
        initialBotMsg == [id |-> botMsgId, role |-> "model", text |-> <<>>,
                          isError |-> FALSE, turn |-> -1, wturn |-> -1]
        w3  == [w2 EXCEPT !.app.req = Append(@,
                    [pc |-> "stream", botMsgId |-> botMsgId, fullResponseText |-> <<>>,
                     got |-> <<>>, botAt |-> 0, wrote |-> {}])]
    IN  SetMessages(w3, [kind |-> "bot", req |-> r, msg |-> initialBotMsg])

SendMessage(late, mode) ==
    /\ Quiet
    /\ Len(app.req) < MaxReqs
    /\ late => env.dateNow < MaxTime
    /\ Commit(HandleSendMessage([World EXCEPT !.mode = mode], <<"hi">>, late))

\* the body of the for await, for one chunk of the stream
OnChunk(w, r, chunk) ==
    LET w1 == [w EXCEPT !.app.req[r].got = Append(@, chunk)]
    IN  IF chunk # <<>>
        THEN SetMessages(
                [w1 EXCEPT !.app.req[r].fullResponseText = @ \o chunk],
                [kind |-> "chunk", id |-> w.app.req[r].botMsgId, req |-> r])
        ELSE w1

\* sendMessageStream yields a chunk (its text, or '' or undefined: <<>>); without
\* an API key there is no chat session and the generator throws instead
StreamChunk(r, chunk, mode) ==
    /\ Quiet
    /\ r \in DOMAIN app.req
    /\ app.req[r].pc = "stream"
    /\ env.apiKey
    /\ Len(app.req[r].got) < MaxChunks
    /\ Commit(OnChunk([World EXCEPT !.mode = mode], r, chunk))

\* the stream ends, or throws: catch appends the error bubble; finally
OnStreamEnd(w, r, ok) ==
    LET errorMsg == [id |-> w.env.dateNow, role |-> "model", text |-> TextErr,
                     isError |-> TRUE, turn |-> -1, wturn |-> -1]
        w1 == IF ok THEN [w EXCEPT !.app.req[r].pc = "done"]
              ELSE SetMessages([w EXCEPT !.app.req[r].pc = "failed"],
                               [kind |-> "append", msg |-> errorMsg])
    IN  [w1 EXCEPT !.app.isLoading = FALSE]

StreamSettled(r, ok, mode) ==
    /\ Quiet
    /\ r \in DOMAIN app.req
    /\ app.req[r].pc = "stream"
    /\ ok => env.apiKey
    /\ Commit(OnStreamEnd([World EXCEPT !.mode = mode], r, ok))

\* ------------------------------------------------------ the environment
\* React renders: the queued updaters run in order
Render ==
    /\ Quiet
    /\ app.pend # <<>>
    /\ app' = ApplyAll([app EXCEPT !.pend = <<>>], app.pend, env.dateNow)
    /\ UNCHANGED <<cl, env, gh>>

\* Date.now() advances
Tick ==
    /\ Quiet
    /\ env.dateNow < MaxTime
    /\ env' = [env EXCEPT !.dateNow = @ + 1]
    /\ UNCHANGED <<app, cl, gh>>

Ended(s, t) == s.start + s.dur <= t

\* the output context renders audio: currentTime advances, sources play out
AudioTick(c) ==
    /\ Quiet
    /\ cl[c].outputAudioContext = "running"
    /\ cl[c].ctxTime < MaxTime
    /\ cl' = [cl EXCEPT ![c].ctxTime = @ + 1]
    /\ gh' = [gh EXCEPT !.playing[c] = {s \in @ : ~Ended(s, cl[c].ctxTime + 1)}]
    /\ UNCHANGED <<app, env>>

\* source.addEventListener('ended', () => this.sources.delete(source))
SourceEnded(c) ==
    /\ Quiet
    /\ cl[c].outputAudioContext # Null
    /\ \E s \in cl[c].sources :
          /\ Ended(s, cl[c].ctxTime)
          /\ cl' = [cl EXCEPT ![c].sources = @ \ {s}]
    /\ UNCHANGED <<app, env, gh>>

\* ------------------------------------------------------- server messages
Msg(audio, inTr, outTr, calls, turnComplete, interrupted) ==
    [audio |-> audio, inTr |-> inTr, outTr |-> outTr, calls |-> calls,
     turnComplete |-> turnComplete, interrupted |-> interrupted]

Chunk(kind, dur) == Some([kind |-> kind, dur |-> dur])

Args(b, u, e) == [botTranslation |-> b, userOriginal |-> u, userEnglishTranslation |-> e]

FcFull  == [id |-> "f1", name |-> ToolName,
            args |-> Args(Some(<<"B">>), Some(<<"U">>), Some(<<"E">>))]
FcBot   == [id |-> "f2", name |-> ToolName, args |-> Args(Some(<<"C">>), None, None)]
FcEmpty == [id |-> "f3", name |-> ToolName, args |-> Args(None, Some(<<>>), None)]
FcOther == [id |-> "f4", name |-> "otherTool",
            args |-> Args(Some(<<"B">>), Some(<<"U">>), Some(<<"E">>))]

\* audio chunks (decodable, of two lengths, and undecodable in both ways),
\* interruptions, and text riding along
MsgsAudio ==
    { Msg(Chunk("ok", 1), None, None, <<>>, FALSE, FALSE),
      Msg(Chunk("ok", 2), Some(<<"a">>), None, <<>>, FALSE, FALSE),
      Msg(Chunk("odd", 0), None, None, <<>>, FALSE, FALSE),
      Msg(Chunk("badBase64", 0), None, None, <<>>, FALSE, FALSE),
      Msg(None, None, None, <<>>, FALSE, TRUE),
      Msg(Chunk("ok", 1), None, Some(<<"x">>), <<>>, FALSE, TRUE),
      Msg(None, Some(<<"a">>), Some(<<"x">>), <<>>, FALSE, FALSE),
      Msg(None, Some(<<"b">>), None, <<>>, FALSE, TRUE),
      Msg(None, None, None, <<>>, TRUE, TRUE) }

\* transcription fragments, tool calls, turn ends and interruptions
MsgsText ==
    { Msg(None, Some(<<"a">>), None, <<>>, FALSE, FALSE),
      Msg(None, Some(<<"b">>), Some(<<"x">>), <<>>, FALSE, FALSE),
      Msg(None, None, Some(<<"y">>), <<>>, FALSE, FALSE),
      Msg(None, None, None, <<FcFull, FcOther, FcBot>>, FALSE, FALSE),
      Msg(None, None, None, <<FcOther, FcEmpty>>, TRUE, FALSE),
      Msg(None, None, None, <<>>, TRUE, FALSE),
      Msg(None, Some(<<"a">>), None, <<>>, TRUE, FALSE),
      Msg(None, None, Some(<<"x">>), <<>>, FALSE, TRUE),
      Msg(None, Some(<<"b">>), None, <<FcBot>>, FALSE, TRUE) }

\* ------------------------------------------------------- specifications
Init ==
    /\ app = InitApp
    /\ cl = [c \in Clients |-> InitClient]
    /\ env \in [dateNow : {0}, apiKey : BOOLEAN]
    /\ gh = InitGh

InitKey == Init /\ env.apiKey

\* the life of the live sessions: every way connect() can go, stops and
\* restarts, socket events, the microphone
Next ==
    \/ ToggleLiveMode("batch", MaxClients)
    \/ \E c \in Clients, o \in {"reject", "throw", "suspended", "running"} :
          GetUserMediaSettled(c, o, "batch")
    \/ \E c \in Clients, ok \in BOOLEAN : ResumeSettled(c, ok, "batch")
    \/ \E c \in Clients, ok \in BOOLEAN : LiveConnectSettled(c, ok, "batch")
    \/ \E c \in Clients : TimerFired(c)
    \/ \E c \in Clients : AudioProcess(c)
    \/ \E c \in Clients : SessionOnClose(c)
    \/ \E c \in Clients : SessionOnError(c, "batch")
    \/ Render

Spec == Init /\ [][Next]_vars

\* one session playing the audio it is sent
NextAudio ==
    \/ ToggleLiveMode("batch", 1)
    \/ \E o \in {"suspended", "running"} : GetUserMediaSettled(1, o, "batch")
    \/ ResumeSettled(1, TRUE, "batch")
    \/ LiveConnectSettled(1, TRUE, "batch")
    \/ TimerFired(1)
    \/ \E m \in MsgsAudio : HandleMessage(1, m, "batch")
    \/ HandleMessageResume(1)
    \/ AudioTick(1)
    \/ SourceEnded(1)
    \/ SessionOnClose(1)

SpecAudio == InitKey /\ [][NextAudio]_vars

\* one session's transcriptions and tool calls, and the bubbles App makes of them
NextText ==
    \/ \E mode \in Modes : ToggleLiveMode(mode, 1)
    \/ GetUserMediaSettled(1, "running", "batch")
    \/ LiveConnectSettled(1, TRUE, "batch")
    \/ \E m \in MsgsText, mode \in Modes : HandleMessage(1, m, mode)
    \/ Render
    \/ Tick

SpecText == InitKey /\ [][NextText]_vars

Chunks == {<<>>, <<"p">>, <<"q">>}

MsgsChat == { Msg(None, None, Some(<<"x">>), <<>>, FALSE, FALSE) }

\* the text chat, its streams, and a live session beside it
NextChat ==
    \/ \E late \in BOOLEAN, mode \in Modes : SendMessage(late, mode)
    \/ \E r \in 1..MaxReqs, k \in Chunks, mode \in Modes : StreamChunk(r, k, mode)
    \/ \E r \in 1..MaxReqs, ok \in BOOLEAN : StreamSettled(r, ok, "batch")
    \/ ToggleLiveMode("batch", 1)
    \/ \E o \in {"reject", "running"} : GetUserMediaSettled(1, o, "batch")
    \/ LiveConnectSettled(1, TRUE, "batch")
    \/ \E m \in MsgsChat : HandleMessage(1, m, "batch")
    \/ Render
    \/ Tick

SpecChat == Init /\ [][NextChat]_vars

\* ================================================================ claims
LastMsg == gh.last.op = "handleMessage" /\ gh.last.handled

\* C1: chunks handled while connected, with no interruption in between, are
\* scheduled in arrival order; each starts at the later of the end of the chunk
\* scheduled before it and the output clock at its arrival, and nextStartTime
\* is then that start plus the chunk's duration: no overlap, and a gap only
\* where playback had run dry.
C1_PlaybackTimeline ==
    \A c \in Clients :
        LET s == gh.sched[c]
        IN  \A i \in DOMAIN s :
                LET prevEnd == IF i = 1 THEN 0 ELSE s[i-1].start + s[i-1].dur
                IN  /\ s[i].start = Max(prevEnd, s[i].arr)
                    /\ s[i].nstAfter = s[i].start + s[i].dur
                    /\ i > 1 => /\ s[i-1].seq < s[i].seq
                                /\ s[i].start >= prevEnd
                                /\ s[i].start > prevEnd => s[i].arr > prevEnd

\* two chunks queued back to back, the second arriving while the first plays,
\* and the timeline standing at the end of the second
C1_Witness ==
    \E c \in Clients :
        /\ Len(gh.sched[c]) >= 2
        /\ gh.sched[c][2].start = gh.sched[c][1].start + gh.sched[c][1].dur
        /\ gh.sched[c][2].arr < gh.sched[c][2].start
        /\ cl[c].nextStartTime = gh.sched[c][2].start + gh.sched[c][2].dur

InterruptedJustNow == LastMsg /\ gh.last.m.interrupted

InterruptCleared ==
    LET k == cl[gh.last.c]
    IN  /\ k.sources = {}
        /\ gh.playing[gh.last.c] = {}
        /\ k.nextStartTime = 0
        /\ k.currentOutputTranscription = <<>>

\* C2 as stated: after a message with `interrupted` is handled while connected
\* every scheduled or playing source is stopped, no source is tracked,
\* nextStartTime is 0, the output transcription is empty and the input
\* transcription is what it was before the message.
C2_InterruptionAsStated ==
    InterruptedJustNow =>
        /\ InterruptCleared
        /\ cl[gh.last.c].currentInputTranscription = gh.last.inBefore

\* C2 amended: ... and the interruption itself leaves the input transcription
\* alone: it is what the message's own inputTranscription and turnComplete
\* made of it.
C2_Interruption ==
    InterruptedJustNow =>
        /\ InterruptCleared
        /\ cl[gh.last.c].currentInputTranscription =
              IF gh.last.m.turnComplete THEN <<>>
              ELSE gh.last.inBefore \o OrEmpty(gh.last.m.inTr)

\* an interruption that found audio scheduled and input text accumulated
C2_Witness ==
    /\ InterruptedJustNow
    /\ gh.last.srcBefore # {}
    /\ gh.last.inBefore # <<>>
    /\ ~gh.last.m.turnComplete

Events(names) == SelectSeq(gh.trace, LAMBDA e : e.ev \in names)

Positions(names) == {i \in DOMAIN gh.trace : gh.trace[i].ev \in names}

\* C3: each onInputTranscription carries, in order, every input fragment
\* received since the last turnComplete, each onOutputTranscription every
\* output fragment received since the last turnComplete or interruption; a
\* message with turnComplete calls onTurnComplete after its transcription
\* callbacks and leaves both accumulators empty.
C3_IncrementalTranscription ==
    LastMsg =>
        LET m == gh.last.m
            k == cl[gh.last.c]
        IN  /\ Events({"onInputTranscription"}) =
                  IF m.inTr = None THEN <<>>
                  ELSE <<[ev |-> "onInputTranscription", text |-> Flat(gh.last.inAll)]>>
            /\ Events({"onOutputTranscription"}) =
                  IF m.outTr = None THEN <<>>
                  ELSE <<[ev |-> "onOutputTranscription", text |-> Flat(gh.last.outAll)]>>
            /\ Cardinality(Positions({"onTurnComplete"})) = IF m.turnComplete THEN 1 ELSE 0
            /\ \A i \in Positions({"onTurnComplete"}) :
                  \A j \in Positions({"onInputTranscription", "onOutputTranscription"}) :
                      j < i
            /\ m.turnComplete => /\ k.currentInputTranscription = <<>>
                                 /\ k.currentOutputTranscription = <<>>

\* a turn's second input fragment arriving together with turnComplete
C3_Witness ==
    /\ LastMsg
    /\ gh.last.m.turnComplete
    /\ gh.last.inAll = << <<"b">>, <<"a">> >>
    /\ Len(gh.last.outAll) = 1
    /\ Len(gh.trace) = 2

\* what C4 asks of a toolCall message: per call named provideBilingualDetails,
\* in order, one onExplanation with '' for what is absent and then one response
RECURSIVE RoundTrips(_)
RoundTrips(fcs) ==
    IF fcs = <<>> THEN <<>>
    ELSE LET fc == Head(fcs)
             a  == fc.args
             text(x) == IF Len(x) = 0 THEN <<>> ELSE Head(x)
         IN  (IF fc.name = "provideBilingualDetails"
              THEN << [ev |-> "onExplanation",
                       data |-> [botTranslation |-> text(a.botTranslation),
                                 userOriginal |-> text(a.userOriginal),
                                 userEnglishTranslation |-> text(a.userEnglishTranslation)]],
                      [ev |-> "sendToolResponse", id |-> fc.id, name |-> fc.name] >>
              ELSE <<>>)
             \o RoundTrips(Tail(fcs))

\* C4: for every function call named provideBilingualDetails of a toolCall
\* message handled while connected the client calls onExplanation once (absent
\* arguments as '') and then sends one tool response with the call's id and
\* name, call by call in the order listed; other calls get neither.
C4_ToolCallRoundTrip ==
    LastMsg => Events({"onExplanation", "sendToolResponse"}) = RoundTrips(gh.last.m.calls)

\* a toolCall with two calls to answer around one to ignore
C4_Witness ==
    /\ LastMsg
    /\ gh.last.m.calls = <<FcFull, FcOther, FcBot>>
    /\ Len(Events({"sendToolResponse"})) = 2

Bubbles(role, t) ==
    {i \in DOMAIN app.messages :
        /\ app.messages[i].role = role
        /\ ~app.messages[i].isError
        /\ app.messages[i].turn = t}

\* no two bubbles share an id (ids come from Date.now(), and two taken in the
\* same or the next millisecond can coincide)
DistinctIds ==
    \A i, j \in DOMAIN app.messages : i # j => app.messages[i].id # app.messages[j].id

\* C7: a live turn adds at most one user bubble and at most one model bubble,
\* its later updates rewrite those, and once onTurnComplete has run the next
\* turn's first update appends a new bubble: no bubble of a finished turn is
\* rewritten, however the callbacks and the deferred updaters are ordered.
\* (Held only to the states where no two bubbles share an id.)
C7_TurnBubbles ==
    DistinctIds =>
        /\ \A t \in 0..gh.turnNo : /\ Cardinality(Bubbles("user", t)) <= 1
                                   /\ Cardinality(Bubbles("model", t)) <= 1
        /\ \A i \in DOMAIN app.messages : app.messages[i].wturn = app.messages[i].turn

\* C5: microphone audio goes to the session only while the client is connected
\* and holds a session: none before connect() has the session, none after
\* disconnect() has run, and streaming never starts for a client disconnected
\* during the 500 ms delay after connecting.
C5_MicOnlyWhileConnected ==
    \A c \in Clients :
        /\ \A e \in gh.sent[c] : /\ e.connected
                                 /\ e.session # Null
                                 /\ ~e.afterDisconnect
        /\ gh.discInDelay[c] => ~gh.started[c]

\* C6: a client that toggleLiveMode's stop branch has disconnected is and stays
\* disconnected: not connected, no session, no microphone stream, no audio
\* streaming, whenever the stop came, also during its connect()'s awaits.
C6_StopCancelsSession ==
    \A c \in Clients :
        gh.stopped[c] => /\ ~cl[c].isConnected
                         /\ cl[c].session = Null
                         /\ cl[c].mediaStream = Null
                         /\ cl[c].scriptProcessor = Null

ClientReleased(k) ==
    /\ ~k.isConnected
    /\ k.session = Null
    /\ k.mediaStream = Null
    /\ k.inputAudioContext = Null
    /\ k.outputAudioContext = Null

\* C8: when connect() fails at any step, onError is called once for the
\* attempt, the client ends not connected and without session, media stream
\* and audio contexts, onConnected is never called, and App ends with isLive
\* false and exactly one voice-mode error message appended.
C8_ConnectFailure ==
    /\ \A c \in Clients :
          cl[c].pc = "failed" => /\ gh.errCalls[c] = 1
                                 /\ gh.connCalls[c] = 0
                                 /\ ClientReleased(cl[c])
    /\ gh.last.op = "connectFail" =>
          /\ cl[gh.last.c].pc = "failed"
          /\ ~app.isLive
          /\ ErrCount(app) = gh.last.errBefore + 1

\* connect() failed at the session handshake, with stream and contexts in hand
C8_Witness ==
    /\ gh.last.op = "connectFail"
    /\ cl[gh.last.c].sock = "closed"
    /\ gh.discRan[gh.last.c]

\* C9: when the session of a connected client ends other than by the user's
\* toggle (its onclose fires, or its onerror fires while connected) the client
\* is disconnected and isLive becomes false; for onerror one error message is
\* appended, once.
C9_SessionEnds ==
    /\ \A c \in Clients : gh.errCalls[c] <= 1
    /\ (gh.last.op \in {"onclose", "onerror"} /\ gh.last.wasConnected) =>
          /\ ~cl[gh.last.c].isConnected
          /\ ~app.isLive
          /\ gh.last.op = "onerror" => /\ ErrCount(app) = gh.last.errBefore + 1
                                       /\ gh.errCalls[gh.last.c] = 1

\* the server closed the session of the connected client the UI shows as live
C9_Witness ==
    /\ gh.last.op = "onclose"
    /\ gh.last.wasConnected
    /\ gh.last.wasLive
    /\ gh.last.ref = Some(gh.last.c)

\* C10: an event of a client the user has stopped (its late onclose or onerror,
\* the continuation of its pending connect()) does not change the UI of a newer
\* session: while the newer client is connecting or connected, isLive stays true.
C10_StaleClientEvents ==
    ( /\ gh.last.op \in {"onclose", "onerror", "connectFail", "connectStep", "connected", "timer"}
      /\ gh.stopped[gh.last.c]
      /\ gh.last.wasLive
      /\ gh.last.refAlive
      /\ gh.last.ref[1] > gh.last.c )
    => app.isLive

\* C11: once disconnect() has run on a client, a server message it handles
\* invokes none of onInputTranscription, onOutputTranscription, onExplanation,
\* onTurnComplete, schedules no audio and sends no tool response.
C11_NoCallbacksAfterDisconnect ==
    (gh.last.op = "handleMessage" /\ gh.last.afterDisconnect) =>
        /\ gh.trace = <<>>
        /\ ~gh.last.scheduled

\* C12: during a text response stream, once React has run the updaters of the
\* chunks received so far, the text of the bot message of the request is the
\* concatenation of those chunks in order, and the updaters of the stream have
\* rewritten no other entry of the list. (The text is compared unless a live
\* turn's updater has written the bot message since.)
C12_TextStream ==
    \A r \in DOMAIN app.req :
        LET q == app.req[r]
        IN  /\ q.wrote \subseteq {q.botAt}
            /\ (app.pend = <<>> /\ q.got # <<>>) =>
                    /\ q.botAt \in DOMAIN app.messages
                    /\ app.messages[q.botAt].wturn = -1 =>
                           app.messages[q.botAt].text = Flat(q.got)

====
